---- MODULE Spec2Model ----
(***************************************************************************)
(* A model of the generic Stack of stack.go, of its push iterator All(),   *)
(* and of the Pairwise adapter of main.go, which drives two pull cursors   *)
(* (iter.Pull) over one sequence.                                          *)
(*                                                                         *)
(* The stack's slice s.data is modelled as Go represents it: a header      *)
(* (backing array, len, cap) over a heap of arrays, so that a re-slice     *)
(* keeps the array, an append within capacity writes in place, and an      *)
(* append beyond capacity moves to a fresh array.  A range loop over       *)
(* s.data evaluates the slice once, when the loop is entered.              *)
(***************************************************************************)
EXTENDS Integers, Sequences, FiniteSets

\* ---------------------------------------------------------------- bounds
\* The element type T is int here: the values 0..MaxVal, 0 being T's zero.
MaxVal == 1
\* Calls of the stack's methods in a run of the stack's client (SpecStack).
MaxCalls == 5
\* Calls of Push and Pop in a run of the traversals' client (Spec).
MaxOps == 4
\* Slots that append may allocate beyond the length it needs.
MaxSlack == 1
\* Calls of Push and Pop in a shorter run of the traversals' client
\* (SpecShort, SpecLive).
MaxShortOps == 3

Val == 0..MaxVal
\* `var zero T`
Zero == 0

VARIABLES
    data,     \* s.data, the slice header: [arr, len, cap]; arr = 0 is nil
    mem,      \* the heap: mem[a] is backing array a, a sequence of cap slots
    log,      \* the calls made on the stack so far, with what each returned
    limit,    \* how many calls the client makes in this run at most
    pc,       \* where control is: in the client, in All's loop, in Pairwise
    held,     \* the sequence value the client holds: -1 for none, else the
              \* closure s.All() returned, noted with the length the stack
              \* had when All was called
    fr,       \* the frame of All's closure run by a plain range loop
    c1, c2,   \* the two pull cursors of Pairwise
    v1, v2,   \* Pairwise's locals v1, v2
    out,      \* the values handed to the consumer of the plain traversal
    pairs,    \* the pairs handed to the consumer of the pairwise traversal
    trav      \* bookkeeping of the current traversal: its kind, whether the
              \* stack was written while it ran, how it ended, at which
              \* element its consumer asked to stop (0: it did not),
              \* whether it began after a plain traversal that was stopped,
              \* and for a plain traversal the length noted in the
              \* sequence value it ranges over

vars == <<data, mem, log, limit, pc, held, fr, c1, c2, v1, v2, out, pairs, trav>>

\* ---------------------------------------------------------------- initial values

NoFrame == [arr |-> 0, len |-> 0, i |-> 0]
NoCursor == [made |-> FALSE, started |-> FALSE, done |-> FALSE,
             stopped |-> FALSE, f |-> NoFrame, draws |-> 0]
NoTrav == [kind |-> "none", mut |-> FALSE, end |-> "none", stopAt |-> 0,
           afterStop |-> FALSE, bound |-> -1]

\* ---------------------------------------------------------------- Stack

\* NewStack: &Stack[T]{}, data is the nil slice.
NewStack == [arr |-> 0, len |-> 0, cap |-> 0]

\* s.data[i] for a slice header h, 0-based as in Go.
At(h, i) == mem[h.arr][i + 1]

\* The capacities append may give a fresh array that must hold n elements.
GrowCaps(n) == n..(n + MaxSlack)

\* append(s.data, value): the new header and heap, the fresh array having c slots.
AppendInPlace(value) ==
    [data |-> [data EXCEPT !.len = @ + 1],
     mem  |-> [mem EXCEPT ![data.arr][data.len + 1] = value]]

\* Mutant: the pushed value is put below the elements, at s.data[0].
AppendFreshAtBottom(value, c) ==
    [data |-> [arr |-> Len(mem) + 1, len |-> data.len + 1, cap |-> c],
     mem  |-> Append(mem, [i \in 1..c |->
                 IF i = 1 THEN value
                 ELSE IF i <= data.len + 1 THEN mem[data.arr][i - 1]
                 ELSE Zero])]

AppendFresh(value, c) ==
    [data |-> [arr |-> Len(mem) + 1, len |-> data.len + 1, cap |-> c],
     mem  |-> Append(mem, [i \in 1..c |->
                 IF i <= data.len THEN mem[data.arr][i]
                 ELSE IF i = data.len + 1 THEN value ELSE Zero])]

\* Mutant: Pop takes the element at the bottom, as a queue would.
PopRetBottom ==
    IF data.len = 0
    THEN [val |-> Zero, ok |-> FALSE]
    ELSE [val |-> At(data, 0), ok |-> TRUE]

\* What Pop returns, and the header it leaves.
PopRet ==
    IF data.len = 0
    THEN [val |-> Zero, ok |-> FALSE]
    ELSE [val |-> At(data, data.len - 1), ok |-> TRUE]

\* Mutant: Pop forgets `s.data = s.data[:index]`.
PopDataKept == data

PopData ==
    IF data.len = 0 THEN data ELSE [data EXCEPT !.len = @ - 1]

\* Mutant: Peek's flag is true on the empty stack too.
PeekRetAlwaysOk ==
    IF data.len = 0
    THEN [val |-> Zero, ok |-> TRUE]
    ELSE [val |-> At(data, data.len - 1), ok |-> TRUE]

\* Mutant: Peek looks at s.data[0].
PeekRetBottom ==
    IF data.len = 0
    THEN [val |-> Zero, ok |-> FALSE]
    ELSE [val |-> At(data, 0), ok |-> TRUE]

\* What Peek returns.
PeekRet ==
    IF data.len = 0
    THEN [val |-> Zero, ok |-> FALSE]
    ELSE [val |-> At(data, data.len - 1), ok |-> TRUE]

\* What Len and IsEmpty return.
LenRet == data.len

\* Mutant: IsEmpty tests the capacity.
IsEmptyRetCap == data.cap = 0

IsEmptyRet == data.len = 0

\* Control is in client code: outside any traversal, or in a consumer's body.
InClient == pc \in {"client", "all_yield", "pw_yield"}



CanCall == InClient /\ Len(log) < limit

Call(op, val, ok) == [op |-> op, val |-> val, ok |-> ok]

\* A write of the stack (a Push, a Pop that removed) and the traversals'
\* bookkeeping: a write from a consumer's body is noted in the running
\* traversal's; a write outside any traversal drops the record of the
\* traversal that ended before it (what its consumer was handed, and the
\* cursors of the Pairwise call that has returned), which describes the
\* stack no more.
Written ==
    IF pc = "client"
    THEN /\ c1' = NoCursor
         /\ c2' = NoCursor
         /\ out' = << >>
         /\ pairs' = << >>
         /\ trav' = NoTrav
    ELSE /\ trav' = [trav EXCEPT !.mut = TRUE]
         /\ UNCHANGED <<c1, c2, out, pairs>>

stackVars == <<data, mem, limit>>
callVars == <<pc, held, fr, v1, v2>>
seenVars == <<c1, c2, out, pairs, trav>>
iterVars == <<callVars, seenVars>>

Push(value) ==
    /\ CanCall
    /\ \/ /\ data.len < data.cap
          /\ data' = AppendInPlace(value).data
          /\ mem' = AppendInPlace(value).mem
       \/ /\ data.len >= data.cap
          /\ \E c \in GrowCaps(data.len + 1) :
                /\ data' = AppendFresh(value, c).data
                /\ mem' = AppendFresh(value, c).mem
    /\ limit' = limit
    /\ log' = Append(log, Call("Push", value, TRUE))
    /\ Written
    /\ UNCHANGED callVars

Pop ==
    /\ CanCall
    /\ data' = PopData
    /\ UNCHANGED <<mem, limit>>
    /\ log' = Append(log, Call("Pop", PopRet.val, PopRet.ok))
    /\ IF PopRet.ok THEN Written ELSE UNCHANGED seenVars
    /\ UNCHANGED callVars

\* Mutant: Peek removes the element it returns, as Pop does.
PeekRemoves ==
    /\ CanCall
    /\ log' = Append(log, Call("Peek", PeekRet.val, PeekRet.ok))
    /\ data' = PopData
    /\ UNCHANGED <<mem, limit, iterVars>>

Peek ==
    /\ CanCall
    /\ log' = Append(log, Call("Peek", PeekRet.val, PeekRet.ok))
    /\ UNCHANGED <<stackVars, iterVars>>

StackLen ==
    /\ CanCall
    /\ log' = Append(log, Call("Len", LenRet, TRUE))
    /\ UNCHANGED <<stackVars, iterVars>>

IsEmpty ==
    /\ CanCall
    /\ log' = Append(log, Call("IsEmpty", Zero, IsEmptyRet))
    /\ UNCHANGED <<stackVars, iterVars>>

\* ---------------------------------------------------------------- All

\* Mutant: the loop ranges over the whole backing array, s.data[:cap].
SeqEnterCap == [arr |-> data.arr, len |-> data.cap, i |-> 0]

\* The body of the closure All() returns: `for _, v := range s.data`.
\* Entering the loop evaluates s.data once: the frame keeps that header's
\* array and length, and i, the 0-based index of the iteration it is at.
\* The frame is gone once the closure has returned.
SeqEnter == [arr |-> data.arr, len |-> data.len, i |-> 0]

\* The loop's test, the element v of the iteration, and the step to the next.
SeqMore(f) == f.i < f.len

\* Mutant: the loop runs from the top down, in pop order.
SeqValTopDown(f) == At(f, f.len - 1 - f.i)

SeqVal(f) == At(f, f.i)

SeqAdvance(f) == [f EXCEPT !.i = @ + 1]

\* s.All(): the client obtains the sequence value, a closure over s.
All ==
    /\ pc = "client"
    /\ held' = LenRet
    /\ UNCHANGED <<stackVars, log, pc, fr, c1, c2, v1, v2, out, pairs, trav>>

\* A traversal of the sequence value begins: the results of the one before
\* are cleared. The client ranges over a sequence value once, as PrintStack
\* and PrintPairs do, and calls All again for the next traversal.
Begin(kind) ==
    /\ pc = "client"
    /\ held >= 0
    /\ trav' = [kind |-> kind, mut |-> FALSE, end |-> "none", stopAt |-> 0,
                afterStop |-> trav.kind = "All" /\ trav.end = "stopped",
                bound |-> IF kind = "All" THEN held ELSE -1]
    /\ held' = -1
    /\ out' = << >>
    /\ pairs' = << >>
    /\ c1' = NoCursor
    /\ c2' = NoCursor
    /\ v1' = Zero
    /\ v2' = Zero

\* `for v := range seq` with seq = s.All(): the closure is called and
\* enters its loop.
RangeAll ==
    /\ Begin("All")
    /\ fr' = SeqEnter
    /\ pc' = "all_loop"
    /\ UNCHANGED <<stackVars, log>>

\* Mutant: the loop consumes the stack, shortening s.data by each element
\* it yields.
AllLoopDrains ==
    /\ pc = "all_loop"
    /\ IF SeqMore(fr)
       THEN /\ out' = Append(out, SeqVal(fr))
            /\ pc' = "all_yield"
            /\ data' = [data EXCEPT !.len = IF @ > 0 THEN @ - 1 ELSE 0]
            /\ UNCHANGED <<fr, trav>>
       ELSE /\ out' = out
            /\ pc' = "client"
            /\ fr' = NoFrame
            /\ data' = data
            /\ trav' = [trav EXCEPT !.end = "exhausted"]
    /\ UNCHANGED <<mem, limit, log, held, c1, c2, v1, v2, pairs>>

\* One turn of All's loop: yield(v) is called, or the loop is over and the
\* closure returns.
AllLoop ==
    /\ pc = "all_loop"
    /\ IF SeqMore(fr)
       THEN /\ out' = Append(out, SeqVal(fr))
            /\ pc' = "all_yield"
            /\ UNCHANGED <<fr, trav>>
       ELSE /\ out' = out
            /\ pc' = "client"
            /\ fr' = NoFrame
            /\ trav' = [trav EXCEPT !.end = "exhausted"]
    /\ UNCHANGED <<stackVars, log, held, c1, c2, v1, v2, pairs>>

\* The consumer's body returns, and yield with it: true for more, false to
\* stop.
AllYieldReturns(more) ==
    /\ pc = "all_yield"
    /\ pc' = IF more THEN "all_more" ELSE "all_stop"
    /\ trav' = IF more THEN trav ELSE [trav EXCEPT !.stopAt = Len(out)]
    /\ UNCHANGED <<stackVars, log, held, fr, c1, c2, v1, v2, out, pairs>>

\* Mutant: yield's result is dropped and the loop goes on.
AllResumeIgnoresStop ==
    /\ pc \in {"all_more", "all_stop"}
    /\ fr' = SeqAdvance(fr)
    /\ pc' = "all_loop"
    /\ UNCHANGED <<stackVars, log, held, c1, c2, v1, v2, out, pairs, trav>>

\* `if !yield(v) { return }`: on false the closure returns, on true the
\* loop goes on.
AllResume ==
    /\ pc \in {"all_more", "all_stop"}
    /\ IF pc = "all_more"
       THEN /\ fr' = SeqAdvance(fr)
            /\ pc' = "all_loop"
            /\ trav' = trav
       ELSE /\ fr' = NoFrame
            /\ pc' = "client"
            /\ trav' = [trav EXCEPT !.end = "stopped"]
    /\ UNCHANGED <<stackVars, log, held, c1, c2, v1, v2, out, pairs>>

\* ---------------------------------------------------------------- iter.Pull

\* Mutant: iter.Pull runs the sequence up to its first yield at once.
PullCursorEager ==
    [NoCursor EXCEPT !.made = TRUE, !.started = TRUE, !.f = SeqEnter]

\* iter.Pull(seq): a cursor whose coroutine has not yet run seq.
PullCursor == [NoCursor EXCEPT !.made = TRUE]

\* next(): a finished cursor gives (zero, false).  Otherwise the coroutine
\* runs seq up to its next yield (entering the loop on the first call,
\* stepping it on the later ones) or to its end.
CursorNext(c) ==
    IF c.done
    THEN [c |-> c, val |-> Zero, ok |-> FALSE]
    ELSE LET f == IF c.started THEN SeqAdvance(c.f) ELSE SeqEnter
         IN  IF SeqMore(f)
             THEN [c |-> [c EXCEPT !.started = TRUE, !.f = f, !.draws = @ + 1],
                   val |-> SeqVal(f), ok |-> TRUE]
             ELSE [c |-> [c EXCEPT !.started = TRUE, !.f = NoFrame,
                                   !.done = TRUE],
                   val |-> Zero, ok |-> FALSE]

\* stop(): ends the cursor; a coroutine suspended in yield gets false and
\* seq returns.
CursorStop(c) == [c EXCEPT !.done = TRUE, !.stopped = TRUE, !.f = NoFrame]

\* ---------------------------------------------------------------- Pairwise

\* `for v1, v2 := range Pairwise(seq)` with seq = s.All(): Pairwise wraps
\* the sequence value in its closure, and the range loop calls it.
Pairwise ==
    /\ Begin("Pairwise")
    /\ fr' = NoFrame
    /\ pc' = "pw_pull1"
    /\ UNCHANGED <<stackVars, log>>

\* next1, stop1 := iter.Pull(seq); defer stop1()
PwPull1 ==
    /\ pc = "pw_pull1"
    /\ c1' = PullCursor
    /\ pc' = "pw_pull2"
    /\ UNCHANGED <<stackVars, log, held, fr, c2, v1, v2, out, pairs, trav>>

\* next2, stop2 := iter.Pull(seq); defer stop2()
PwPull2 ==
    /\ pc = "pw_pull2"
    /\ c2' = PullCursor
    /\ pc' = "pw_look"
    /\ UNCHANGED <<stackVars, log, held, fr, c1, v1, v2, out, pairs, trav>>

\* Mutant: the lookahead call is missing.
PwLookSkipped ==
    /\ pc = "pw_look"
    /\ pc' = "pw_next1"
    /\ UNCHANGED <<stackVars, log, held, fr, c1, c2, v1, v2, out, pairs, trav>>

\* Mutant: the lookahead is taken from cursor 1, next1() for next2().
PwLookOnCursor1 ==
    /\ pc = "pw_look"
    /\ c1' = CursorNext(c1).c
    /\ pc' = "pw_next1"
    /\ UNCHANGED <<stackVars, log, held, fr, c2, v1, v2, out, pairs, trav>>

\* Mutant: the lookahead is taken twice, `next2(); next2()`.
PwLookTwice ==
    /\ pc = "pw_look"
    /\ c2' = CursorNext(CursorNext(c2).c).c
    /\ pc' = "pw_next1"
    /\ UNCHANGED <<stackVars, log, held, fr, c1, v1, v2, out, pairs, trav>>

\* next2(): the lookahead, its result dropped.
PwLook ==
    /\ pc = "pw_look"
    /\ c2' = CursorNext(c2).c
    /\ pc' = "pw_next1"
    /\ UNCHANGED <<stackVars, log, held, fr, c1, v1, v2, out, pairs, trav>>

\* Mutant: `if !ok1 { continue }`, the loop is not left when cursor 1 is
\* exhausted.
PwNext1Spins ==
    /\ pc = "pw_next1"
    /\ c1' = CursorNext(c1).c
    /\ v1' = CursorNext(c1).val
    /\ pc' = IF CursorNext(c1).ok THEN "pw_next2" ELSE "pw_next1"
    /\ UNCHANGED <<stackVars, log, held, fr, c2, v2, out, pairs, trav>>

\* Mutant: ok1 is not tested, cursor 2 is drawn whatever cursor 1 reported.
PwNext1Unchecked ==
    /\ pc = "pw_next1"
    /\ c1' = CursorNext(c1).c
    /\ v1' = CursorNext(c1).val
    /\ pc' = "pw_next2"
    /\ UNCHANGED <<stackVars, log, held, fr, c2, v2, out, pairs, trav>>

\* Mutant: the first component is drawn from cursor 2, `v1, ok1 := next2()`.
PwNext1FromCursor2 ==
    /\ pc = "pw_next1"
    /\ c2' = CursorNext(c2).c
    /\ v1' = CursorNext(c2).val
    /\ IF CursorNext(c2).ok
       THEN /\ pc' = "pw_next2"
            /\ trav' = trav
       ELSE /\ pc' = "pw_stop2"
            /\ trav' = [trav EXCEPT !.end = "exhausted1"]
    /\ UNCHANGED <<stackVars, log, held, fr, c1, v2, out, pairs>>

\* v1, ok1 := next1(); if !ok1 { return }
PwNext1 ==
    /\ pc = "pw_next1"
    /\ c1' = CursorNext(c1).c
    /\ v1' = CursorNext(c1).val
    /\ IF CursorNext(c1).ok
       THEN /\ pc' = "pw_next2"
            /\ trav' = trav
       ELSE /\ pc' = "pw_stop2"
            /\ trav' = [trav EXCEPT !.end = "exhausted1"]
    /\ UNCHANGED <<stackVars, log, held, fr, c2, v2, out, pairs>>

\* Mutant: ok2 is not tested.
PwNext2Unchecked ==
    /\ pc = "pw_next2"
    /\ c2' = CursorNext(c2).c
    /\ v2' = CursorNext(c2).val
    /\ pc' = "pw_emit"
    /\ UNCHANGED <<stackVars, log, held, fr, c1, v1, out, pairs, trav>>

\* v2, ok2 := next2(); if !ok2 { return }
PwNext2 ==
    /\ pc = "pw_next2"
    /\ c2' = CursorNext(c2).c
    /\ v2' = CursorNext(c2).val
    /\ IF CursorNext(c2).ok
       THEN /\ pc' = "pw_emit"
            /\ trav' = trav
       ELSE /\ pc' = "pw_stop2"
            /\ trav' = [trav EXCEPT !.end = "exhausted2"]
    /\ UNCHANGED <<stackVars, log, held, fr, c1, v1, out, pairs>>

\* yield(v1, v2) is called: the consumer's body runs.
PwEmit ==
    /\ pc = "pw_emit"
    /\ pairs' = Append(pairs, <<v1, v2>>)
    /\ pc' = "pw_yield"
    /\ UNCHANGED <<stackVars, log, held, fr, c1, c2, v1, v2, out, trav>>

\* The consumer's body returns, and yield with it: true for more, false to
\* stop.
PwYieldReturns(more) ==
    /\ pc = "pw_yield"
    /\ pc' = IF more THEN "pw_more" ELSE "pw_stop"
    /\ trav' = IF more THEN trav ELSE [trav EXCEPT !.stopAt = Len(pairs)]
    /\ UNCHANGED <<stackVars, log, held, fr, c1, c2, v1, v2, out, pairs>>

\* Mutant: the result of yield is dropped, the loop goes on after a stop.
PwResumeIgnoresStop ==
    /\ pc \in {"pw_more", "pw_stop"}
    /\ pc' = "pw_next1"
    /\ UNCHANGED <<stackVars, log, held, fr, c1, c2, v1, v2, out, pairs, trav>>

\* `if !yield(v1, v2) { return }`
PwResume ==
    /\ pc \in {"pw_more", "pw_stop"}
    /\ IF pc = "pw_more"
       THEN /\ pc' = "pw_next1"
            /\ trav' = trav
       ELSE /\ pc' = "pw_stop2"
            /\ trav' = [trav EXCEPT !.end = "stopped"]
    /\ UNCHANGED <<stackVars, log, held, fr, c1, c2, v1, v2, out, pairs>>

\* Mutant: `defer stop2()` is missing.
PwStop2Missing ==
    /\ pc = "pw_stop2"
    /\ pc' = "pw_stop1"
    /\ UNCHANGED <<stackVars, log, held, fr, c1, c2, v1, v2, out, pairs, trav>>

\* The deferred calls run on return, last deferred first: stop2(), stop1().
PwStop2 ==
    /\ pc = "pw_stop2"
    /\ c2' = CursorStop(c2)
    /\ pc' = "pw_stop1"
    /\ UNCHANGED <<stackVars, log, held, fr, c1, v1, v2, out, pairs, trav>>

\* With stop1() done the closure has returned, its locals with it.
PwStop1 ==
    /\ pc = "pw_stop1"
    /\ c1' = CursorStop(c1)
    /\ pc' = "client"
    /\ v1' = Zero
    /\ v2' = Zero
    /\ UNCHANGED <<stackVars, log, held, fr, c2, out, pairs, trav>>

\* ---------------------------------------------------------------- specifications

Start(calls) ==
    /\ data = NewStack
    /\ mem = << >>
    /\ log = << >>
    /\ limit = calls
    /\ pc = "client"
    /\ held = -1
    /\ fr = NoFrame
    /\ c1 = NoCursor
    /\ c2 = NoCursor
    /\ v1 = Zero
    /\ v2 = Zero
    /\ out = << >>
    /\ pairs = << >>
    /\ trav = NoTrav

\* The stack's client: any calls of the five methods, in any order.
InitStack == Start(MaxCalls)

NextStack ==
    \/ \E value \in Val : Push(value)
    \/ Pop
    \/ Peek
    \/ StackLen
    \/ IsEmpty

SpecStack == InitStack /\ [][NextStack]_vars

\* The traversals' client: it builds the stack with Push and Pop, obtains
\* sequence values and ranges over them; a consumer's body may stop the
\* traversal, and may itself call Push and Pop.
Init == Start(MaxOps)

Next ==
    \/ \E value \in Val : Push(value)
    \/ Pop
    \/ All
    \/ RangeAll
    \/ AllLoop
    \/ \E more \in BOOLEAN : AllYieldReturns(more)
    \/ AllResume
    \/ Pairwise
    \/ PwPull1
    \/ PwPull2
    \/ PwLook
    \/ PwNext1
    \/ PwNext2
    \/ PwEmit
    \/ \E more \in BOOLEAN : PwYieldReturns(more)
    \/ PwResume
    \/ PwStop2
    \/ PwStop1

Spec == Init /\ [][Next]_vars

\* ---------------------------------------------------------------- reference

\* The stack as the calls made so far define it: the values pushed and not
\* yet popped, oldest first.
RECURSIVE Replay(_)
Replay(l) ==
    IF l = << >>
    THEN << >>
    ELSE LET rest == Replay(SubSeq(l, 1, Len(l) - 1))
             e == l[Len(l)]
         IN  IF e.op = "Push" THEN Append(rest, e.val)
             ELSE IF e.op = "Pop" /\ rest # << >>
                  THEN SubSeq(rest, 1, Len(rest) - 1)
                  ELSE rest

Prefix(l, n) == SubSeq(l, 1, n)

\* The calls of Push, and the calls of Pop that returned an element.
Pushed(l) == Cardinality({i \in 1..Len(l) : l[i].op = "Push"})
Popped(l) == Cardinality({i \in 1..Len(l) : l[i].op = "Pop" /\ l[i].ok})

\* The run so far begins with this many calls of Push.
LeadingPushes ==
    CHOOSE n \in 0..Len(log) :
        /\ \A i \in 1..n : log[i].op = "Push"
        /\ n = Len(log) \/ log[n + 1].op # "Push"

\* The step is a call of op, made on what is an empty stack.
CalledOnEmpty(op) ==
    /\ Len(log') = Len(log) + 1
    /\ log'[Len(log')].op = op
    /\ Replay(log) = << >>

\* The adjacent pairs of a sequence.
Adjacent(v) == [i \in 1..(Len(v) - 1) |-> <<v[i], v[i + 1]>>]

\* ---------------------------------------------------------------- claims

\* C1: when a run is N calls of Push on a new stack followed by calls of Pop
\* only, the j-th Pop (j <= N) returns the value of the (N+1-j)-th Push with
\* flag true, so the values come back in reverse order of push, and the
\* (N+1)-th Pop returns flag false.
C1_PopsReversePushes ==
    LET N == LeadingPushes
    IN  (\A i \in (N + 1)..Len(log) : log[i].op = "Pop") =>
            \A j \in 1..(Len(log) - N) :
                /\ j <= N => log[N + j] = Call("Pop", log[N + 1 - j].val, TRUE)
                /\ j = N + 1 => ~log[N + j].ok

\* Two different values pushed, then three pops.
C1_Witness ==
    /\ Len(log) = 5
    /\ LeadingPushes = 2
    /\ \A i \in 3..5 : log[i].op = "Pop"
    /\ log[1].val # log[2].val

\* C2: a plain traversal that ran to its end, the stack not written
\* meanwhile, handed its consumer exactly the elements pushed and not yet
\* popped, each once, oldest first.
C2_AllYieldsBottomToTop ==
    (trav.kind = "All" /\ trav.end = "exhausted" /\ ~trav.mut) =>
        out = Replay(log)

\* A traversal of two different elements, after pushes and a pop.
C2_Witness ==
    /\ trav.kind = "All"
    /\ trav.end = "exhausted"
    /\ ~trav.mut
    /\ Popped(log) >= 1
    /\ Len(out) >= 2
    /\ out[1] # out[2]

\* C3: over a source v of two elements or more, a pairwise traversal that
\* ran until a cursor was exhausted, the stack not written meanwhile, handed
\* its consumer exactly the pairs (v[i], v[i+1]), in increasing i.
C3_PairwiseYieldsAdjacent ==
    (/\ trav.kind = "Pairwise"
     /\ trav.end \in {"exhausted1", "exhausted2"}
     /\ ~trav.mut
     /\ Len(Replay(log)) >= 2) =>
        pairs = Adjacent(Replay(log))

\* A pairwise traversal that has returned, with two different pairs.
C3_Witness ==
    /\ trav.kind = "Pairwise"
    /\ trav.end = "exhausted2"
    /\ pc = "client"
    /\ Len(pairs) >= 2
    /\ pairs[1] # pairs[2]
    /\ Len(Replay(log)) = Len(pairs) + 1

\* C4: over a stack of no element or of one, a pairwise traversal never
\* calls its consumer: no pair is emitted, control never reaches the call
\* of yield, and Pairwise returns because a cursor is exhausted.
C4_PairwiseOfShortIsEmpty ==
    (trav.kind = "Pairwise" /\ ~trav.mut /\ Len(Replay(log)) <= 1) =>
        /\ pairs = << >>
        /\ pc \notin {"pw_emit", "pw_yield", "pw_more", "pw_stop"}
        /\ trav.stopAt = 0
        /\ pc = "client" => trav.end \in {"exhausted1", "exhausted2"}

\* Pairwise has returned from a stack of one element, both cursors having
\* drawn it.
C4_Witness ==
    /\ trav.kind = "Pairwise"
    /\ pc = "client"
    /\ Len(Replay(log)) = 1
    /\ c1.draws = 1
    /\ c2.draws = 1
    /\ pairs = << >>

\* C5: a call of Pop or of Peek on an empty stack (a new one, or one that
\* pops emptied) returns the zero value with flag false and leaves the stack
\* empty: Len() is 0 before and after.
C5_EmptyReportsAbsence ==
    [][\A op \in {"Pop", "Peek"} :
          CalledOnEmpty(op) =>
              /\ log'[Len(log')] = Call(op, Zero, FALSE)
              /\ LenRet = 0
              /\ LenRet' = 0
              /\ Replay(log') = << >>]_vars

\* A stack emptied by a Pop, then a Pop and a Peek that found nothing.
C5_Witness ==
    \E i \in 1..(Len(log) - 2) :
        /\ log[i].op = "Pop" /\ log[i].ok
        /\ log[i + 1] = Call("Pop", Zero, FALSE)
        /\ log[i + 2] = Call("Peek", Zero, FALSE)

\* C6: Len() is the number of calls of Push less the number of calls of Pop
\* that returned an element, in every state and in every call of Len made;
\* it is never negative, and a Pop that reports absence leaves it alone.
C6_LenIsPushesLessPops ==
    /\ LenRet = Pushed(log) - Popped(log)
    /\ LenRet >= 0
    /\ \A i \in 1..Len(log) :
          /\ log[i].op = "Len" =>
                log[i].val = Pushed(Prefix(log, i)) - Popped(Prefix(log, i))
          /\ (log[i].op = "Pop" /\ ~log[i].ok) =>
                Pushed(Prefix(log, i)) = Popped(Prefix(log, i))

\* Len called before and after a Pop that found nothing, on a stack that
\* was pushed to.
C6_Witness ==
    \E i \in 2..(Len(log) - 1) :
        /\ log[i] = Call("Pop", Zero, FALSE)
        /\ log[i - 1].op = "Len"
        /\ log[i + 1].op = "Len"
        /\ Pushed(log) >= 1

\* C7: IsEmpty() is true exactly when Len() is 0, which is exactly when Pop
\* and Peek report absence; each call of IsEmpty made returned true exactly
\* when nothing pushed was left.
C7_IsEmptyIffLenZero ==
    /\ IsEmptyRet <=> (LenRet = 0)
    /\ (LenRet = 0) <=> ~PopRet.ok
    /\ (LenRet = 0) <=> ~PeekRet.ok
    /\ \A i \in 1..Len(log) :
          log[i].op = "IsEmpty" =>
              (log[i].ok <=> Replay(Prefix(log, i)) = << >>)

\* IsEmpty answered false on a stack of one element and true once it was
\* popped, the array still being there.
C7_Witness ==
    /\ data.len = 0
    /\ data.cap > 0
    /\ \E i \in 1..(Len(log) - 2) :
          /\ log[i].op = "IsEmpty" /\ ~log[i].ok
          /\ log[i + 1].op = "Pop"
          /\ log[i + 2].op = "IsEmpty" /\ log[i + 2].ok

\* Between two calls no Push and no Pop was made.
NoWriteBetween(i, j) ==
    \A k \in (i + 1)..(j - 1) : log[k].op \notin {"Push", "Pop"}

\* Every two calls of Peek with no Push or Pop between them returned the same.
PeeksAgree ==
    \A i, j \in 1..Len(log) :
        (/\ i < j
         /\ log[i].op = "Peek"
         /\ log[j].op = "Peek"
         /\ NoWriteBetween(i, j)) => log[i] = log[j]

\* C8: a call of Peek leaves the slice, its elements and Len() as they
\* were, and returns what every Peek since the last Push or Pop returned.
C8_PeekDoesNotMutate ==
    [][(Len(log') = Len(log) + 1 /\ log'[Len(log')].op = "Peek") =>
          /\ data' = data
          /\ mem' = mem
          /\ LenRet' = LenRet
          /\ Replay(log') = Replay(log)
          /\ PeeksAgree']_vars

\* Three calls of Peek in a row on a stack that is not empty.
C8_Witness ==
    /\ data.len > 0
    /\ \E i \in 1..(Len(log) - 2) :
          \A k \in i..(i + 2) : log[k].op = "Peek" /\ log[k].ok

\* C9: on a stack that is not empty Peek returns (x, true), x being the
\* value pushed last among those not yet popped, and Pop returns the same.
C9_PeekIsTopAsPop ==
    (Replay(log) # << >> \/ LenRet > 0) =>
        /\ PeekRet = [val |-> Replay(log)[Len(Replay(log))], ok |-> TRUE]
        /\ PopRet = PeekRet

\* Two different elements left after a Pop and a later Push.
C9_Witness ==
    /\ Len(Replay(log)) = 2
    /\ Replay(log)[1] # Replay(log)[2]
    /\ \E i \in 1..(Len(log) - 1) :
          /\ log[i].op = "Pop" /\ log[i].ok
          /\ log[i + 1].op = "Push"

\* C10: once the consumer of a plain traversal has answered stop at the
\* j-th element, the consumer has been called j times, on the first j
\* elements, and is not called again; and a plain traversal begun after a
\* stopped one, when it has run to its end, has yielded the whole sequence.
C10_StopEndsTraversal ==
    /\ (trav.kind = "All" /\ trav.stopAt > 0) =>
          /\ Len(out) = trav.stopAt
          /\ pc \in {"all_stop", "client"}
          /\ ~trav.mut => out = Prefix(Replay(log), trav.stopAt)
    /\ (/\ trav.kind = "All"
        /\ trav.afterStop
        /\ trav.end = "exhausted"
        /\ ~trav.mut) => out = Replay(log)

\* A second traversal has yielded two elements or more to its end, the
\* first having been stopped.
C10_Witness ==
    /\ trav.kind = "All"
    /\ trav.afterStop
    /\ trav.end = "exhausted"
    /\ ~trav.mut
    /\ Len(out) >= 2

\* ---------------------------------------------------------------- C11

\* Pairwise has returned to the range loop's caller.
PwReturned == trav.kind = "Pairwise" /\ pc = "client"

\* C11: whenever Pairwise has returned, by whichever of its three returns
\* (cursor 1 exhausted, cursor 2 exhausted, the consumer asked to stop),
\* stop1 and stop2 have both been called: neither cursor is left with a
\* suspended coroutine.
C11_CursorsReleased ==
    PwReturned =>
        /\ trav.end \in {"exhausted1", "exhausted2", "stopped"}
        /\ c1.made /\ c1.stopped /\ c1.done /\ c1.f = NoFrame
        /\ c2.made /\ c2.stopped /\ c2.done /\ c2.f = NoFrame

\* Pairwise returned because its consumer stopped it while both cursors
\* still had elements to give, and both are released.
C11_Witness ==
    /\ PwReturned
    /\ trav.end = "stopped"
    /\ ~trav.mut
    /\ c2.draws < Len(Replay(log))
    /\ c1.stopped
    /\ c2.stopped

\* ---------------------------------------------------------------- C12

\* The steps of All's loop run by a plain range loop.
AllRuns == AllLoop \/ AllResume

\* The steps of Pairwise and, inside next and stop, of its two cursors.
PairwiseRuns ==
    \/ PwPull1 \/ PwPull2 \/ PwLook \/ PwNext1 \/ PwNext2 \/ PwEmit
    \/ PwResume \/ PwStop2 \/ PwStop1

\* The body of the range loop comes to its end and yield returns.
ConsumerReturns ==
    \/ \E more \in BOOLEAN : AllYieldReturns(more)
    \/ \E more \in BOOLEAN : PwYieldReturns(more)

\* The traversals' client in a shorter run.
InitShort == Start(MaxShortOps)

SpecShort == InitShort /\ [][Next]_vars

\* The program runs on: one goroutine executes the loops statement after
\* statement and nothing blocks, and the body of a range loop returns.
SpecLive ==
    /\ InitShort
    /\ [][Next]_vars
    /\ WF_vars(AllRuns)
    /\ WF_vars(PairwiseRuns)
    /\ WF_vars(ConsumerReturns)

\* The consumer's answer to the element or pair just yielded is stop.
StopSignalled == pc \in {"all_stop", "pw_stop"}

\* The traversal is over, and over because its source gave no more.
RanOut ==
    /\ pc = "client"
    /\ trav.end \in {"exhausted", "exhausted1", "exhausted2"}

\* C12: if no consumer ever signals stop, every traversal that has begun,
\* plain or Pairwise, returns to its caller after finitely many steps, and
\* returns because the sequence is exhausted.
C12_TraversalsTerminate ==
    ([]~StopSignalled) => ((pc # "client") ~> RanOut)

\* A Pairwise traversal over three elements or more has come to its end
\* without its consumer having stopped it.
C12_Witness ==
    /\ PwReturned
    /\ trav.end = "exhausted2"
    /\ trav.stopAt = 0
    /\ Len(pairs) >= 2
    /\ c2.draws = Len(pairs) + 1

\* ---------------------------------------------------------------- C13

\* The elements of the stack, bottom first: s.data[0], ..., s.data[len-1].
Elems == [i \in 1..data.len |-> At(data, i - 1)]

\* C13: every step that is not a call of Push or Pop, so every step of a
\* plain traversal and of a Pairwise traversal, its cursors and its return
\* after a stop included, leaves s.data and its backing arrays as they are,
\* and with them what Len, Peek and Pop would return.
C13_TraversalsReadOnly ==
    [][ log' = log =>
            /\ data' = data
            /\ mem' = mem
            /\ Elems' = Elems
            /\ LenRet' = LenRet
            /\ PeekRet' = PeekRet
            /\ PopRet' = PopRet ]_vars

\* A Pairwise traversal was stopped at its first pair, the stack was not
\* written meanwhile, and the stack holds what the calls before it built.
C13_Witness ==
    /\ PwReturned
    /\ trav.end = "stopped"
    /\ trav.stopAt = 1
    /\ ~trav.mut
    /\ Elems = Replay(log)
    /\ LenRet >= 3

\* ---------------------------------------------------------------- C14

\* The phase of the running or returned call of Pairwise's closure: INIT up
\* to the lookahead call, ADVANCING in the loop, EXHAUSTED from the return
\* statement on.
Phase ==
    IF trav.kind # "Pairwise" THEN "NONE"
    ELSE IF pc \in {"pw_pull1", "pw_pull2", "pw_look"} THEN "INIT"
    ELSE IF pc \in {"pw_next1", "pw_next2", "pw_emit", "pw_yield",
                    "pw_more", "pw_stop"} THEN "ADVANCING"
    ELSE "EXHAUSTED"

\* The step ends the life of the call's record: after the call has
\* returned, the client begins another traversal or writes the stack.
NewTraversal == pc = "client" /\ trav' # trav

\* In the loop, a cursor is about to report no value or the consumer has
\* signalled stop.
LoopEnds ==
    \/ pc = "pw_next1" /\ ~CursorNext(c1).ok
    \/ pc = "pw_next2" /\ ~CursorNext(c2).ok
    \/ pc = "pw_stop"

\* C14: a call of Pairwise moves INIT -> ADVANCING -> EXHAUSTED only.  It
\* enters ADVANCING by the one lookahead call of next2, neither cursor
\* having been drawn from before; it enters EXHAUSTED exactly when a cursor
\* reports no value in the loop or the consumer has signalled stop; once
\* EXHAUSTED it emits no pair, draws from neither cursor and stays
\* EXHAUSTED.
C14_PhasesInOrder ==
    [][ (Phase # "NONE" /\ ~NewTraversal) =>
            /\ Phase = "INIT" => Phase' \in {"INIT", "ADVANCING"}
            /\ Phase = "ADVANCING" => Phase' \in {"ADVANCING", "EXHAUSTED"}
            /\ (Phase = "INIT" /\ Phase' = "ADVANCING") =>
                   /\ pc = "pw_look"
                   /\ ~c1.started /\ ~c2.started
                   /\ c2' = CursorNext(c2).c
                   /\ c2'.started
                   /\ c1' = c1
            /\ (Phase = "ADVANCING" /\ Phase' = "EXHAUSTED") <=> LoopEnds
            /\ Phase = "EXHAUSTED" =>
                   /\ Phase' = "EXHAUSTED"
                   /\ pairs' = pairs
                   /\ c1'.draws = c1.draws
                   /\ c2'.draws = c2.draws
                   /\ trav'.end = trav.end ]_vars

\* A call of Pairwise over three elements or more has gone through the
\* three phases: it emitted one pair, was stopped there and has returned,
\* cursor 2 one draw ahead of cursor 1.
C14_Witness ==
    /\ Phase = "EXHAUSTED"
    /\ pc = "client"
    /\ trav.end = "stopped"
    /\ Len(pairs) = 1
    /\ c1.draws = 1
    /\ c2.draws = 2
    /\ Len(Replay(log)) >= 3

\* ---------------------------------------------------------------- C15

\* Control is in All's loop run by a plain range loop, or in the body of
\* that range loop.
InAll == pc \in {"all_loop", "all_yield", "all_more", "all_stop"}

\* C15 as stated: a plain traversal yields no more elements than the stack
\* held when the All() call that returned the ranged sequence was made.
C15_BoundedByLengthAtCall ==
    trav.kind = "All" => Len(out) <= trav.bound

\* C15, amended: a plain traversal yields no more elements than the stack
\* holds when the range loop is entered.  The closure All returned holds
\* the stack, not its elements: its loop takes the length of s.data when
\* it is entered, keeps that length to its end whatever is pushed or
\* popped meanwhile, and yields at most that many elements.
C15_BoundedByLengthAtRange ==
    [][ /\ (pc = "client" /\ InAll') => fr'.len = LenRet
        /\ (InAll /\ InAll') => fr'.len = fr.len
        /\ InAll' => Len(out') <= fr'.len
        /\ (InAll /\ pc' = "client") => out' = out ]_vars

\* The stack grew between the call of All and the range loop, and the
\* traversal, run to its end, yielded the elements pushed in between too.
C15_Witness ==
    /\ trav.kind = "All"
    /\ trav.end = "exhausted"
    /\ ~trav.mut
    /\ trav.bound >= 1
    /\ Len(out) > trav.bound
    /\ Len(out) = LenRet

\* ---------------------------------------------------------------- C16

\* The source sequence v_0, v_1, ... of a traversal during which the stack
\* is not written: the stack's elements, bottom first.
Source == Replay(log)

\* C16: the two cursors pulled from the one sequence value are independent.
\* A call of next2 or stop2 leaves cursor 1 as it is, position included,
\* and a call of next1 or stop1 leaves cursor 2 as it is.  Each cursor
\* delivers the whole source from v_0 on: its k-th draw gives v_(k-1), and
\* it reports exhaustion only after as many draws as the source has
\* elements; so the first draw of cursor 1 gives v_0 although cursor 2 has
\* been advanced before.
C16_CursorsIndependent ==
    [][ /\ pc \in {"pw_look", "pw_next2", "pw_stop2"} => c1' = c1
        /\ pc \in {"pw_next1", "pw_stop1"} => c2' = c2
        /\ (pc = "pw_next1" /\ ~trav.mut) =>
               IF c1'.draws > c1.draws
               THEN /\ c1'.draws = c1.draws + 1
                    /\ c1'.f.i = c1.draws
                    /\ v1' = Source[c1'.draws]
               ELSE c1.draws = Len(Source)
        /\ (pc = "pw_next2" /\ ~trav.mut) =>
               IF c2'.draws > c2.draws
               THEN /\ c2'.draws = c2.draws + 1
                    /\ c2'.f.i = c2.draws
                    /\ v2' = Source[c2'.draws]
               ELSE c2.draws = Len(Source)
        /\ (pc = "pw_look" /\ ~trav.mut) =>
               IF c2'.draws > c2.draws
               THEN c2'.draws = 1 /\ c2'.f.i = 0
               ELSE Len(Source) = 0 ]_vars

\* Cursor 1 has made its first draw after the lookahead advanced cursor 2,
\* and got v_0, which differs from v_1.
C16_Witness ==
    /\ pc = "pw_next2"
    /\ ~trav.mut
    /\ c2.draws = 1
    /\ c1.draws = 1
    /\ Len(Source) >= 2
    /\ v1 = Source[1]
    /\ Source[1] # Source[2]
    /\ c1.f.i = 0
    /\ c2.f.i = 0

\* ---------------------------------------------------------------- C17

\* The calls of next made on a cursor, counted before the deferred stops
\* run: one more than its draws once it has reported exhaustion.  (A
\* cursor is done without being stopped only by a call of next that found
\* the sequence over.)
Nexts(c) == c.draws + (IF c.done /\ ~c.stopped THEN 1 ELSE 0)

\* C17: in the loop of Pairwise the cursors are drawn in lockstep.  With k
\* pairs emitted so far: at the head of an iteration cursor 1 has drawn k
\* values and cursor 2, unless the source is empty, k + 1 (the lookahead
\* and one per pair); cursor 2 is drawn only after cursor 1 has given a
\* value in the same iteration; the consumer is called only after both
\* have given one, with the pair drawn in this iteration; an iteration in
\* which cursor 1 reports exhaustion does not draw cursor 2, and one in
\* which either reports exhaustion does not call the consumer.
C17_Lockstep ==
    trav.kind = "Pairwise" =>
        LET k == Len(pairs)
        IN  /\ pc = "pw_next1" =>
                /\ c1.draws = k /\ ~c1.done
                /\ c2.draws = k + 1 \/ (c2.done /\ c2.draws = 0 /\ k = 0)
            /\ pc = "pw_next2" =>
                /\ c1.draws = k + 1 /\ ~c1.done
                /\ c2.draws = k + 1 /\ ~c2.done
            /\ pc = "pw_emit" =>
                /\ c1.draws = k + 1 /\ ~c1.done
                /\ c2.draws = k + 2 /\ ~c2.done
            /\ pc \in {"pw_yield", "pw_more", "pw_stop"} =>
                /\ k >= 1
                /\ c1.draws = k /\ ~c1.done
                /\ c2.draws = k + 1 /\ ~c2.done
                /\ pairs[k] = <<v1, v2>>
            /\ (pc = "pw_stop2" /\ trav.end = "exhausted1") =>
                /\ c1.draws = k
                /\ Nexts(c1) = k + 1
                /\ Nexts(c2) = k + 1
            /\ (pc = "pw_stop2" /\ trav.end = "exhausted2") =>
                /\ c1.draws = k + 1
                /\ c2.draws = k + 1
                /\ Nexts(c2) = k + 2
            /\ (pc = "pw_stop2" /\ trav.end = "stopped") =>
                /\ k = trav.stopAt
                /\ c1.draws = k
                /\ c2.draws = k + 1

\* The second iteration of the loop has drawn from cursor 1 and then from
\* cursor 2: the second pair is about to be emitted.
C17_Witness ==
    /\ trav.kind = "Pairwise"
    /\ pc = "pw_emit"
    /\ Len(pairs) = 1
    /\ c1.draws = 2
    /\ c2.draws = 3

\* ---------------------------------------------------------------- C18

\* A call of Pairwise over a source of at most one element, the stack not
\* written meanwhile, has reached a return statement.
ShortEnded ==
    /\ trav.kind = "Pairwise"
    /\ trav.end # "none"
    /\ ~trav.mut
    /\ Len(Source) <= 1

\* C18 as stated: over a source of 0 or 1 elements Pairwise emits nothing,
\* because the lookahead call of next2 reported exhaustion (cursor 2 never
\* gave a value) or because cursor 1 reported exhaustion on its first draw.
C18_ShortEndsAtFirstAdvance ==
    ShortEnded =>
        /\ pairs = << >>
        /\ \/ c2.draws = 0
           \/ trav.end = "exhausted1" /\ c1.draws = 0

\* C18, amended: over a source of 0 or 1 elements Pairwise emits nothing.
\* Over the empty source the lookahead reports exhaustion and so does the
\* first draw of cursor 1, where Pairwise returns.  Over a source of one
\* element the lookahead and the first draw of cursor 1 both give v_0, and
\* Pairwise returns where cursor 2 reports exhaustion on its second
\* advance.
C18_ShortEndsWithoutPair ==
    ShortEnded =>
        /\ pairs = << >>
        /\ trav.stopAt = 0
        /\ IF Len(Source) = 0
           THEN /\ trav.end = "exhausted1"
                /\ c1.draws = 0 /\ c1.done
                /\ c2.draws = 0
           ELSE /\ trav.end = "exhausted2"
                /\ c1.draws = 1
                /\ c2.draws = 1 /\ c2.done

\* Over a source of one element both cursors gave v_0 and cursor 2 has
\* reported exhaustion on its second advance: no pair was emitted.
C18_Witness ==
    /\ ShortEnded
    /\ pc = "pw_stop2"
    /\ Len(Source) = 1
    /\ trav.end = "exhausted2"
    /\ c1.draws = 1
    /\ c2.draws = 1
    /\ v1 = Source[1]
    /\ pairs = << >>

\* ---------------------------------------------------------------- C19

\* The client of all six methods, in a shorter run: any calls of Push, Pop,
\* Peek, Len, IsEmpty and All, in any order.
NextCalls ==
    \/ NextStack
    \/ All

SpecCalls == InitShort /\ [][NextCalls]_vars

\* C19: a call of Push lengthens the stack by exactly one, the pushed
\* value on top; a call of Pop on a non-empty stack shortens it by exactly
\* one, removing and returning only the top; both leave the elements below
\* the top in place.  Every other call (Pop on the empty stack, Peek, Len,
\* IsEmpty, All) leaves the length and the elements as they are.
C19_OnlyPushAndPopChangeLength ==
    [][ IF log' = log
        THEN Elems' = Elems
        ELSE LET call == log'[Len(log')]
             IN  IF call.op = "Push"
                 THEN /\ LenRet' = LenRet + 1
                      /\ Elems' = Append(Elems, call.val)
                      /\ PeekRet' = [val |-> call.val, ok |-> TRUE]
                 ELSE IF call.op = "Pop" /\ call.ok
                 THEN /\ LenRet' = LenRet - 1
                      /\ Elems' = SubSeq(Elems, 1, LenRet - 1)
                      /\ call.val = Elems[LenRet]
                 ELSE /\ LenRet' = LenRet
                      /\ Elems' = Elems ]_vars

\* Two different values were pushed, All was called on the stack of two,
\* and Pop removed the top: the bottom element is where it was.
C19_Witness ==
    /\ Len(log) = 3
    /\ log[1].op = "Push"
    /\ log[2].op = "Push"
    /\ log[1].val # log[2].val
    /\ log[3] = Call("Pop", log[2].val, TRUE)
    /\ held = 2
    /\ Elems = <<log[1].val>>

\* ---------------------------------------------------------------- C20

\* One call of next on cursor c, leaving it as d: the producer gives the
\* one element that follows those drawn so far and is suspended there, or
\* finds the sequence over.
OneElement(c, d) ==
    \/ /\ d.draws = c.draws + 1
       /\ d.f.i = c.draws
       /\ ~d.done
    \/ /\ d.draws = c.draws
       /\ d.done
       /\ d.f = NoFrame

\* C20: production and consumption are interleaved, one party running at a
\* time.  No step advances both cursors.  A cursor's producer moves only
\* inside a call on that cursor (Pull, next, stop); Pull does not start
\* it; a call of next moves it by exactly one element.  While the consumer
\* runs (the body of the range loop, or the client after the return) both
\* cursors and Pairwise's own state stay as they are, and a call the
\* consumer makes on the stack does not move the producer's control.
C20_OnePartyRuns ==
    [][ ~NewTraversal =>
            /\ c1' = c1 \/ c2' = c2
            /\ c1' # c1 => pc \in {"pw_pull1", "pw_next1", "pw_stop1"}
            /\ c2' # c2 => pc \in {"pw_pull2", "pw_look", "pw_next2", "pw_stop2"}
            /\ pc = "pw_pull1" => (~c1'.started /\ c1'.f = NoFrame)
            /\ pc = "pw_pull2" => (~c2'.started /\ c2'.f = NoFrame)
            /\ pc = "pw_next1" => OneElement(c1, c1')
            /\ pc \in {"pw_look", "pw_next2"} => OneElement(c2, c2')
            /\ InClient =>
                   /\ c1' = c1 /\ c2' = c2
                   /\ fr' = fr
                   /\ pairs' = pairs /\ out' = out
                   /\ v1' = v1 /\ v2' = v2
            /\ log' # log => (InClient /\ pc' = pc) ]_vars

\* The consumer runs the body of the range loop for the first pair while
\* both producers are suspended inside the sequence, cursor 1 at v_0 and
\* cursor 2 at v_1, with v_2 still to come.
C20_Witness ==
    /\ pc = "pw_yield"
    /\ Len(pairs) = 1
    /\ c1.started /\ ~c1.done /\ c1.f.i = 0
    /\ c2.started /\ ~c2.done /\ c2.f.i = 1
    /\ c2.f.len >= 3

\* ---------------------------------------------------------------- C21

\* The k-th pair is with the consumer: yield(v1, v2) has been called for it
\* and Pairwise has not gone on since.
Handed(k) ==
    /\ trav.kind = "Pairwise"
    /\ pc \in {"pw_yield", "pw_more", "pw_stop"}
    /\ Len(pairs) = k

\* C21: whenever the k-th pair is with the consumer, cursor 1 has drawn
\* exactly k elements and stands at index k - 1, cursor 2 exactly k + 1 and
\* stands at index k, one element ahead: no element beyond index k has been
\* read, and with the stack not written meanwhile the pair is (v_(k-1),
\* v_k).  Once the consumer has answered stop at pair k, the draws stay at k
\* and k + 1 and no pair is added, through the return of Pairwise and after.
C21_Lookahead ==
    /\ \A k \in 0..Len(pairs) :
          Handed(k) =>
              /\ k >= 1
              /\ c1.draws = k /\ c1.f.i = k - 1
              /\ c2.draws = k + 1 /\ c2.f.i = k
              /\ c2.f.i = c1.f.i + 1
              /\ k < c2.f.len
              /\ ~trav.mut => pairs[k] = <<Source[k], Source[k + 1]>>
    /\ (trav.kind = "Pairwise" /\ trav.stopAt > 0) =>
          /\ pc \in {"pw_stop", "pw_stop2", "pw_stop1", "client"}
          /\ Len(pairs) = trav.stopAt
          /\ c1.draws = trav.stopAt
          /\ c2.draws = trav.stopAt + 1

\* The consumer stopped Pairwise at its second pair over a source of four
\* elements or more: Pairwise has returned, cursor 1 having drawn two
\* elements and cursor 2 three, the fourth never read.
C21_Witness ==
    /\ PwReturned
    /\ ~trav.mut
    /\ trav.stopAt = 2
    /\ c1.draws = 2
    /\ c2.draws = 3
    /\ Len(Source) >= 4

\* ---------------------------------------------------------------- C22

\* The first components of the pairs emitted so far, in order.
Firsts == [j \in 1..Len(pairs) |-> pairs[j][1]]

\* C22: Pairwise returns at `if !ok1` only over the empty source, before
\* any draw.  Over a source of n >= 1 elements, the stack not written
\* during the traversal, it ends at `if !ok2` or by the consumer's stop;
\* when it ends at `if !ok2`, cursor 1 has drawn all n elements, the last
\* draw being v_(n-1), while the first components emitted are v_0, ...,
\* v_(n-2) only: v_(n-1) was drawn by cursor 1 and dropped.
C22_Cursor1ExitOnlyWhenEmpty ==
    trav.kind = "Pairwise" =>
        LET n == Len(Source)
        IN  /\ trav.end = "exhausted1" =>
                /\ ~trav.mut
                /\ n = 0
                /\ c1.draws = 0
                /\ pairs = << >>
            /\ (n >= 1 /\ ~trav.mut /\ trav.end # "none") =>
                trav.end \in {"exhausted2", "stopped"}
            /\ (n >= 1 /\ ~trav.mut /\ trav.end = "exhausted2") =>
                /\ c1.draws = n
                /\ c2.draws = n
                /\ Len(pairs) = n - 1
                /\ Firsts = SubSeq(Source, 1, n - 1)
                /\ pc \in {"pw_stop2", "pw_stop1"} => v1 = Source[n]

\* Over a source of three elements or more Pairwise is returning at
\* `if !ok2`: cursor 1 has just drawn the last element, which differs from
\* the first component of the last pair emitted.
C22_Witness ==
    /\ trav.kind = "Pairwise"
    /\ pc = "pw_stop2"
    /\ trav.end = "exhausted2"
    /\ ~trav.mut
    /\ Len(Source) >= 3
    /\ c1.draws = Len(Source)
    /\ v1 = Source[Len(Source)]
    /\ Len(pairs) = Len(Source) - 1
    /\ v1 # Firsts[Len(pairs)]

====
